---- MODULE Spec2Model ----
(***************************************************************************)
(* Model of Lambda/lambda_function.py: the Lex dialog handler for the      *)
(* recommendPortfolio intent.                                              *)
(*                                                                         *)
(* Representation of Python values:                                        *)
(*   - a str that the code parses or lowercases (slot values) is a         *)
(*     sequence of one-character strings, so that int() and str.lower()    *)
(*     are computed character by character;                                *)
(*   - None in a slot value position is the tuple None (its only element   *)
(*     is not a character, so it differs from every str, including the     *)
(*     four-character str "None");                                         *)
(*   - dictionaries are records; a key a builder does not set is not in    *)
(*     the record's DOMAIN;                                                *)
(*   - a number is [nan, v]: int values have nan = FALSE, float("nan")     *)
(*     has nan = TRUE and compares false with everything;                  *)
(*   - a call yields [raised, value]: raised names the exception that      *)
(*     propagated ("none" when the call returned).                         *)
(***************************************************************************)
EXTENDS Integers, Sequences, FiniteSets, TLC

VARIABLES
    event,      \* the caller's event object (the handler holds a reference to it)
    sent,       \* the event as the caller built it, before the call
    response,   \* what lambda_handler returned (Nothing if it raised)
    error,      \* the exception that left lambda_handler, "none" if it returned
    pc,         \* "ready" before the invocation, "done" after it
    vAge,       \* validate_data call: the age argument
    vAmount,    \* validate_data call: the investment_amount argument
    vResult,    \* validate_data call: [raised, value]
    vpc         \* "ready" before the validate_data call, "done" after it

vars == <<event, sent, response, error, pc, vAge, vAmount, vResult, vpc>>

----------------------------------------------------------------------------
(* Bounds of the input space *)

\* longest arbitrary character string tried as a numeric slot value
MaxLen == 2
\* how far around each threshold of validate_data the integer inputs range
Margin == 3

----------------------------------------------------------------------------
(* Python values *)

None == <<"None">>
NoneStr == "None"                \* None where a slot name or a message text is expected
Nothing == [k \in {} |-> k]      \* no value: the call raised

Returned(v) == [raised |-> "none", value |-> v]
Raised(e) == [raised |-> e, value |-> Nothing]

Int_(n) == [nan |-> FALSE, v |-> n]
NaN == [nan |-> TRUE, v |-> 0]

\* Python's <, > and <= on numbers: any comparison with nan is False
Lt(x, k) == ~x.nan /\ x.v < k
Gt(x, k) == ~x.nan /\ x.v > k
Le(x, k) == ~x.nan /\ x.v <= k

Digits == <<"0", "1", "2", "3", "4", "5", "6", "7", "8", "9">>
Whitespace == {" ", "\t", "\n"}
Uppers == <<"A","B","C","D","E","F","G","H","I","J","K","L","M",
            "N","O","P","Q","R","S","T","U","V","W","X","Y","Z">>
Lowers == <<"a","b","c","d","e","f","g","h","i","j","k","l","m",
            "n","o","p","q","r","s","t","u","v","w","x","y","z">>

IsDigit(c) == \E i \in 1..Len(Digits) : Digits[i] = c
DigitVal(c) == (CHOOSE i \in 1..Len(Digits) : Digits[i] = c) - 1

RECURSIVE lstrip(_)
lstrip(s) == IF s # <<>> /\ Head(s) \in Whitespace THEN lstrip(Tail(s)) ELSE s

RECURSIVE rstrip(_)
rstrip(s) ==
    IF s # <<>> /\ s[Len(s)] \in Whitespace
    THEN rstrip(SubSeq(s, 1, Len(s) - 1)) ELSE s

strip(s) == rstrip(lstrip(s))

\* the digit part of a decimal literal: digits, single underscores between digits
DigitsOk(d) ==
    /\ d # <<>>
    /\ IsDigit(d[1]) /\ IsDigit(d[Len(d)])
    /\ \A i \in 1..Len(d) : IsDigit(d[i]) \/ d[i] = "_"
    /\ \A i \in 1..(Len(d) - 1) : ~(d[i] = "_" /\ d[i + 1] = "_")

RECURSIVE DigitsValue(_, _)
DigitsValue(d, acc) ==
    IF d = <<>> THEN acc
    ELSE IF Head(d) = "_" THEN DigitsValue(Tail(d), acc)
    ELSE DigitsValue(Tail(d), 10 * acc + DigitVal(Head(d)))

\* the builtin int(str), base 10: surrounding whitespace is ignored, one
\* optional sign, then the digits; anything else raises ValueError
int(n) ==
    LET t == strip(n)
        signed == t # <<>> /\ Head(t) \in {"+", "-"}
        d == IF signed THEN Tail(t) ELSE t
        mag == DigitsValue(d, 0)
    IN  IF ~DigitsOk(d) THEN Raised("ValueError")
        ELSE Returned(IF signed /\ Head(t) = "-" THEN 0 - mag ELSE mag)

\* str.lower() on ASCII text
LowerChar(c) ==
    IF \E i \in 1..Len(Uppers) : Uppers[i] = c
    THEN Lowers[CHOOSE i \in 1..Len(Uppers) : Uppers[i] = c]
    ELSE c

lower(s) == [i \in 1..Len(s) |-> LowerChar(s[i])]

----------------------------------------------------------------------------
(* Functionality helper functions *)

parse_int_zero(n) ==
    LET r == int(n) IN IF r.raised = "ValueError" THEN Int_(0) ELSE Int_(r.value)

parse_int(n) ==
    LET r == int(n) IN IF r.raised = "ValueError" THEN NaN ELSE Int_(r.value)

build_validation_result(is_valid, violated_slot, message_content) ==
    IF message_content = NoneStr
    THEN [isValid |-> is_valid, violatedSlot |-> violated_slot]
    ELSE [isValid |-> is_valid, violatedSlot |-> violated_slot,
          message |-> [contentType |-> "PlainText", content |-> message_content]]

InvalidAgeMessage == "This is not a valid age, please provide a different age."
RetirementMessage ==
    "Sorry, you are already at retirement age! I cannot recommend a portfolio."
MinimumAmountMessage ==
    "Your investment amount must be greater than or equal to $5000, please provide a different investment amount."

RetirementAge == 65
AmountCut == 4999

validate_data_ge(age, investment_amount, intent_request) ==
    LET a == IF age # None THEN parse_int(age) ELSE NaN
        amt == IF investment_amount # None THEN parse_int(investment_amount) ELSE NaN
    IN  IF age # None /\ Lt(a, 0)
        THEN build_validation_result(FALSE, "age", InvalidAgeMessage)
        ELSE IF age # None /\ Gt(a, RetirementAge - 1)
        THEN build_validation_result(FALSE, "age", RetirementMessage)
        ELSE IF investment_amount # None /\ Le(amt, AmountCut)
        THEN build_validation_result(FALSE, "investmentAmount", MinimumAmountMessage)
        ELSE build_validation_result(TRUE, NoneStr, NoneStr)

validate_data(age, investment_amount, intent_request) ==
    LET a == IF age # None THEN parse_int(age) ELSE NaN
        amt == IF investment_amount # None THEN parse_int(investment_amount) ELSE NaN
    IN  IF age # None /\ Lt(a, 0)
        THEN build_validation_result(FALSE, "age", InvalidAgeMessage)
        ELSE IF age # None /\ Gt(a, RetirementAge)
        THEN build_validation_result(FALSE, "age", RetirementMessage)
        ELSE IF investment_amount # None /\ Le(amt, AmountCut)
        THEN build_validation_result(FALSE, "investmentAmount", MinimumAmountMessage)
        ELSE build_validation_result(TRUE, NoneStr, NoneStr)

risk_levels ==
    <<"n","o","n","e">> :> "100% bonds (AGG), 0% equities (SPY)" @@
    <<"l","o","w">> :> "60% bonds (AGG), 40% equities (SPY)" @@
    <<"m","e","d","i","u","m">> :> "40% bonds (AGG), 60% equities (SPY)" @@
    <<"h","i","g","h">> :> "20% bonds (AGG), 80% equities (SPY)"

get_risks_default(risk_level) ==
    IF risk_level \in DOMAIN risk_levels
    THEN Returned(risk_levels[risk_level])
    ELSE Returned(risk_levels[<<"n","o","n","e">>])

get_risks_shifted(risk_level) ==
    IF risk_level = <<"l","o","w">> THEN Returned(risk_levels[<<"m","e","d","i","u","m">>])
    ELSE IF risk_level \in DOMAIN risk_levels THEN Returned(risk_levels[risk_level])
    ELSE Raised("KeyError")

get_risks(risk_level) ==
    IF risk_level \in DOMAIN risk_levels
    THEN Returned(risk_levels[risk_level])
    ELSE Raised("KeyError")

----------------------------------------------------------------------------
(* Dialog actions helper functions *)

get_slots(intent_request) == intent_request.currentIntent.slots

elicit_slot_wrong_slot(session_attributes, intent_name, slots, slot_to_elicit, message) ==
    [sessionAttributes |-> session_attributes,
     dialogAction |-> [type |-> "ElicitSlot",
                       intentName |-> intent_name,
                       slots |-> slots,
                       slotToElicit |-> "age",
                       message |-> message]]

elicit_slot(session_attributes, intent_name, slots, slot_to_elicit, message) ==
    [sessionAttributes |-> session_attributes,
     dialogAction |-> [type |-> "ElicitSlot",
                       intentName |-> intent_name,
                       slots |-> slots,
                       slotToElicit |-> slot_to_elicit,
                       message |-> message]]

delegate_no_attributes(session_attributes, slots) ==
    [sessionAttributes |-> [k \in {} |-> k],
     dialogAction |-> [type |-> "Delegate", slots |-> slots]]

delegate(session_attributes, slots) ==
    [sessionAttributes |-> session_attributes,
     dialogAction |-> [type |-> "Delegate", slots |-> slots]]

close_with_slots(session_attributes, fulfillment_state, message) ==
    [sessionAttributes |-> session_attributes,
     dialogAction |-> [type |-> "Close",
                       fulfillmentState |-> fulfillment_state,
                       slots |-> None,
                       message |-> message]]

close(session_attributes, fulfillment_state, message) ==
    [sessionAttributes |-> session_attributes,
     dialogAction |-> [type |-> "Close",
                       fulfillmentState |-> fulfillment_state,
                       message |-> message]]

----------------------------------------------------------------------------
(* Intent handler, dispatcher, main handler *)

\* A call of a handler yields [raised, value, event]: event is the caller's
\* event object after the call. slots is a reference to the event's own slot
\* dictionary, so the assignment slots[violatedSlot] = None writes into it.
\* The f-string of the closing message is the sequence of its four pieces.
recommend_portfolio(intent_request) ==
    LET age == get_slots(intent_request).age
        investment_amount == get_slots(intent_request).investmentAmount
        risk_level == get_slots(intent_request).riskLevel
        source == intent_request.invocationSource
        slots == get_slots(intent_request)
        validation_result == validate_data(age, investment_amount, intent_request)
        nulled == [slots EXCEPT ![validation_result.violatedSlot] = None]
        after == [intent_request EXCEPT !.currentIntent.slots = nulled]
        desired_risk == get_risks(lower(risk_level))
    IN  IF source = "DialogCodeHook"
        THEN IF ~validation_result.isValid
             THEN [raised |-> "none",
                   value |-> elicit_slot(intent_request.sessionAttributes,
                                         intent_request.currentIntent.name,
                                         nulled,
                                         validation_result.violatedSlot,
                                         validation_result.message),
                   event |-> after]
             ELSE [raised |-> "none",
                   value |-> delegate(intent_request.sessionAttributes,
                                      get_slots(intent_request)),
                   event |-> intent_request]
        ELSE IF risk_level = None
        THEN [raised |-> "AttributeError", value |-> Nothing, event |-> intent_request]
        ELSE IF desired_risk.raised # "none"
        THEN [raised |-> desired_risk.raised, value |-> Nothing, event |-> intent_request]
        ELSE [raised |-> "none",
              value |-> close(intent_request.sessionAttributes,
                              "Fulfilled",
                              [contentType |-> "PlainText",
                               content |-> <<"For a ", risk_level,
                                             "-risk portfolio, invest in ",
                                             desired_risk.value>>]),
              event |-> intent_request]

dispatch_any_intent(intent_request) == recommend_portfolio(intent_request)

dispatch(intent_request) ==
    LET intent_name == intent_request.currentIntent.name
    IN  IF intent_name = "recommendPortfolio"
        THEN recommend_portfolio(intent_request)
        ELSE [raised |-> "Exception", value |-> Nothing, event |-> intent_request]

lambda_handler(ev, context) == dispatch(ev)

----------------------------------------------------------------------------
(* Inputs *)

\* the decimal text of an integer, as the platform writes a numeric slot
RECURSIVE NatStr(_)
NatStr(n) == IF n < 10 THEN <<Digits[n + 1]>> ELSE NatStr(n \div 10) \o <<Digits[(n % 10) + 1]>>

Str(n) == IF n < 0 THEN <<"-">> \o NatStr(0 - n) ELSE NatStr(n)

Alphabet == {"-", "+", " ", "_", "7", "x"}
Strings(n) == UNION {[1..k -> Alphabet] : k \in 0..n}

AgeInts == (0 - Margin)..(RetirementAge + Margin)
AmountInts == ((0 - Margin)..Margin) \cup ((AmountCut - Margin)..(AmountCut + 1 + Margin))

AgeArgs == {None} \cup {Str(n) : n \in AgeInts} \cup Strings(MaxLen)
AmountArgs == {None} \cup {Str(n) : n \in AmountInts} \cup Strings(MaxLen)

IntentNames == {"recommendPortfolio", "greeting"}
Sources == {"DialogCodeHook", "FulfillmentCodeHook"}
FirstNames == {None, <<"A", "n", "n">>}
AgeSlots == {None, Str(0 - 1), Str(0), Str(30), Str(RetirementAge),
             Str(RetirementAge + 1), <<"x">>}
AmountSlots == {None, Str(AmountCut), Str(AmountCut + 1), <<>>}
RiskSlots == {None, <<>>,
              <<"n","o","n","e">>, <<"N","o","n","e">>,
              <<"l","o","w">>, <<"L","O","W">>, <<"L","o","w">>, <<"l","o","w"," ">>,
              <<"m","e","d","i","u","m">>, <<"M","e","d","i","u","m">>,
              <<"h","i","g","h">>, <<"H","I","g","h">>,
              <<"r","i","s","k","y">>}
SessionAttributes == {[k \in {} |-> k], [user |-> "u1"]}

Events ==
    {[currentIntent |-> [name |-> n,
                         slots |-> [firstName |-> f, age |-> a,
                                    investmentAmount |-> m, riskLevel |-> r]],
      invocationSource |-> src,
      sessionAttributes |-> sa] :
        n \in IntentNames, f \in FirstNames, a \in AgeSlots, m \in AmountSlots,
        r \in RiskSlots, src \in Sources, sa \in SessionAttributes}

----------------------------------------------------------------------------
(* The handler invoked on an event *)

Init ==
    /\ event \in Events
    /\ sent = event
    /\ response = Nothing
    /\ error = "none"
    /\ pc = "ready"
    /\ vAge = None /\ vAmount = None /\ vResult = Nothing /\ vpc = "idle"

LambdaHandler ==
    /\ pc = "ready"
    /\ LET r == lambda_handler(event, Nothing)
       IN  /\ event' = r.event
           /\ response' = r.value
           /\ error' = r.raised
    /\ pc' = "done"
    /\ UNCHANGED <<sent, vAge, vAmount, vResult, vpc>>

Next == LambdaHandler

Spec == Init /\ [][Next]_vars

(* validate_data called on its own *)

InitValidate ==
    /\ vAge \in AgeArgs
    /\ vAmount \in AmountArgs
    /\ vResult = Nothing
    /\ vpc = "ready"
    /\ event = Nothing /\ sent = Nothing /\ response = Nothing
    /\ error = "none" /\ pc = "idle"

ValidateData ==
    /\ vpc = "ready"
    /\ vResult' = Returned(validate_data(vAge, vAmount, Nothing))
    /\ vpc' = "done"
    /\ UNCHANGED <<event, sent, response, error, pc, vAge, vAmount>>

NextValidate == ValidateData

SpecValidate == InitValidate /\ [][NextValidate]_vars

----------------------------------------------------------------------------
(* Properties *)

PlainText(text) == [contentType |-> "PlainText", content |-> text]
FourKeys == {<<"n","o","n","e">>, <<"l","o","w">>, <<"m","e","d","i","u","m">>,
             <<"h","i","g","h">>}
Invoked == pc = "done" /\ sent.currentIntent.name = "recommendPortfolio"
InValidation == Invoked /\ sent.invocationSource = "DialogCodeHook"
InFulfillment == Invoked /\ sent.invocationSource # "DialogCodeHook"
SentSlots == sent.currentIntent.slots
SentValidation == validate_data(SentSlots.age, SentSlots.investmentAmount, sent)
Validated == vpc = "done"
AgeText == [a \in AgeInts |-> Str(a)]
AmountText == [m \in AmountInts |-> Str(m)]
AgeIsInt(a) == vAge = AgeText[a]
AmountIsInt(m) == vAmount = AmountText[m]
AgePasses == vAge = None \/ \E a \in AgeInts : AgeIsInt(a) /\ 0 <= a /\ a <= 65

C2_InvalidElicitsSlot ==
    InValidation /\ ~SentValidation.isValid =>
        /\ error = "none"
        /\ response.sessionAttributes = sent.sessionAttributes
        /\ response.dialogAction.type = "ElicitSlot"
        /\ response.dialogAction.slotToElicit = SentValidation.violatedSlot
        /\ response.dialogAction.message = SentValidation.message
        /\ response.dialogAction.intentName = sent.currentIntent.name
        /\ DOMAIN response.dialogAction.slots = DOMAIN SentSlots
        /\ \A k \in DOMAIN SentSlots :
              response.dialogAction.slots[k] =
                  IF k = SentValidation.violatedSlot THEN None ELSE SentSlots[k]

\* investmentAmount 4999 with a valid age: re-prompt for investmentAmount
C2_Witness ==
    /\ InValidation
    /\ SentSlots.age = Str(30) /\ SentSlots.investmentAmount = Str(4999)
    /\ response.dialogAction.type = "ElicitSlot"
    /\ response.dialogAction.slotToElicit = "investmentAmount"
    /\ response.dialogAction.slots.age = Str(30)

\* C3: in the validation stage, when validate_data reports the slots valid,
\* the response is Delegate with the request's slots, every value as sent,
\* and the request's session attributes.
C3_ValidDelegates ==
    InValidation /\ SentValidation.isValid =>
        /\ error = "none"
        /\ response = [sessionAttributes |-> sent.sessionAttributes,
                       dialogAction |-> [type |-> "Delegate", slots |-> SentSlots]]

\* age 30 and investmentAmount 5000 with session attributes set
C3_Witness ==
    /\ InValidation
    /\ SentSlots.age = Str(30) /\ SentSlots.investmentAmount = Str(5000)
    /\ sent.sessionAttributes = [user |-> "u1"]
    /\ response.dialogAction.type = "Delegate"

\* C4: in the fulfillment stage, a riskLevel that is one of the four catalog
\* keys after lowercasing gets a Close response, fulfillmentState Fulfilled,
\* the request's session attributes, and a PlainText message that contains
\* the allocation of the lowercased key.
C4_Allocation(key) ==
    CASE key = <<"n","o","n","e">> -> "100% bonds (AGG), 0% equities (SPY)"
      [] key = <<"l","o","w">> -> "60% bonds (AGG), 40% equities (SPY)"
      [] key = <<"m","e","d","i","u","m">> -> "40% bonds (AGG), 60% equities (SPY)"
      [] key = <<"h","i","g","h">> -> "20% bonds (AGG), 80% equities (SPY)"

C4_KnownRiskCloses ==
    InFulfillment /\ SentSlots.riskLevel # None /\ lower(SentSlots.riskLevel) \in FourKeys =>
        /\ error = "none"
        /\ response.sessionAttributes = sent.sessionAttributes
        /\ response.dialogAction.type = "Close"
        /\ response.dialogAction.fulfillmentState = "Fulfilled"
        /\ response.dialogAction.message.contentType = "PlainText"
        /\ Len(response.dialogAction.message.content) = 4
        /\ response.dialogAction.message.content[4] =
              C4_Allocation(lower(SentSlots.riskLevel))

\* riskLevel "LOW" closes with the allocation of "low"
C4_Witness ==
    /\ InFulfillment /\ SentSlots.riskLevel = <<"L","O","W">>
    /\ response.dialogAction.type = "Close"
    /\ response.dialogAction.message.content[4] = "60% bonds (AGG), 40% equities (SPY)"

\* C5: an intent name other than recommendPortfolio ends in the
\* unsupported-intent error with no response, whatever the invocation source
\* and slots; for recommendPortfolio the handler returns (or raises) exactly
\* what recommend_portfolio does.
C5_DispatchByName ==
    pc = "done" =>
        IF sent.currentIntent.name # "recommendPortfolio"
        THEN error = "Exception" /\ response = Nothing
        ELSE /\ error = recommend_portfolio(sent).raised
             /\ response = recommend_portfolio(sent).value

\* an unsupported intent whose slots would otherwise have been re-elicited
C5_Witness ==
    /\ pc = "done" /\ sent.currentIntent.name = "greeting"
    /\ sent.invocationSource = "DialogCodeHook" /\ SentSlots.age = Str(66)
    /\ error = "Exception" /\ response = Nothing

\* C6: an invocation leaves the request's slot mapping and session attributes
\* as they were before the call.
C6_RequestUnchanged ==
    pc = "done" =>
        /\ event.currentIntent.slots = sent.currentIntent.slots
        /\ event.sessionAttributes = sent.sessionAttributes

\* C7: a returned response is one of ElicitSlot, Delegate, Close and has only
\* that variant's fields; it is ElicitSlot or Delegate exactly when the
\* invocation source is DialogCodeHook, and Close otherwise.
C7_ResponseVariants ==
    pc = "done" /\ error = "none" =>
        LET da == response.dialogAction
            Has(k) == k \in DOMAIN da
        IN  /\ DOMAIN response = {"sessionAttributes", "dialogAction"}
            /\ da.type \in {"ElicitSlot", "Delegate", "Close"}
            /\ da.type = "ElicitSlot" =>
                  /\ Has("intentName") /\ Has("slots") /\ Has("slotToElicit")
                  /\ Has("message") /\ ~Has("fulfillmentState")
            /\ da.type = "Delegate" =>
                  /\ Has("slots") /\ ~Has("intentName") /\ ~Has("slotToElicit")
                  /\ ~Has("message") /\ ~Has("fulfillmentState")
            /\ da.type = "Close" =>
                  /\ Has("fulfillmentState") /\ Has("message")
                  /\ ~Has("intentName") /\ ~Has("slots") /\ ~Has("slotToElicit")
            /\ da.type \in {"ElicitSlot", "Delegate"} <=>
                  sent.invocationSource = "DialogCodeHook"

\* a Close response returned in the fulfillment stage
C7_Witness ==
    /\ InFulfillment /\ error = "none"
    /\ response.dialogAction.type = "Close"
    /\ DOMAIN response.dialogAction = {"type", "fulfillmentState", "message"}

\* C8: a present age or investmentAmount string that int() rejects parses to
\* the not-a-number value, validate_data returns, that slot is never the
\* violated slot, and the other slot is still judged by its own rule.
C8_UnparseableIsValid ==
    Validated =>
        LET badAge == vAge # None /\ int(vAge).raised = "ValueError"
            badAmount == vAmount # None /\ int(vAmount).raised = "ValueError"
            v == vResult.value
        IN  /\ vResult.raised = "none"
            /\ badAge => parse_int(vAge) = NaN /\ v.violatedSlot # "age"
            /\ badAmount => parse_int(vAmount) = NaN /\ v.violatedSlot # "investmentAmount"
            /\ badAge /\ (badAmount \/ vAmount = None) => v.isValid
            /\ badAge => \A m \in AmountInts : AmountIsInt(m) =>
                  IF m <= 4999 THEN v.violatedSlot = "investmentAmount" ELSE v.isValid
            /\ badAmount /\ vAge = None => v.isValid
            /\ badAmount => \A a \in AgeInts : AgeIsInt(a) =>
                  IF a < 0 \/ a > 65 THEN v.violatedSlot = "age" ELSE v.isValid

\* an unparseable age next to an amount of 4999: the amount is reported
C8_Witness ==
    /\ Validated /\ vAge = <<"x">> /\ AmountIsInt(4999)
    /\ vResult.value.violatedSlot = "investmentAmount"

\* C9: in the fulfillment stage, a riskLevel whose lowercased value is not a
\* catalog key fails with the lookup error; no response is returned.
C9_UnknownRiskFails ==
    InFulfillment /\ SentSlots.riskLevel # None /\ lower(SentSlots.riskLevel) \notin FourKeys =>
        error = "KeyError" /\ response = Nothing

\* riskLevel "risky"
C9_Witness ==
    /\ InFulfillment /\ SentSlots.riskLevel = <<"r","i","s","k","y">>
    /\ error = "KeyError" /\ response = Nothing

\* C10: a present integer age passes only when 0 < age < 65; every age <= 0
\* or >= 65 is reported invalid with violatedSlot "age".
C10_AgeStrictlyBetween ==
    Validated =>
        \A a \in AgeInts : AgeIsInt(a) =>
            IF a <= 0 \/ a >= 65
            THEN ~vResult.value.isValid /\ vResult.value.violatedSlot = "age"
            ELSE vResult.value.violatedSlot # "age"

====
